---- MODULE Spec2Model ----
(***************************************************************************)
(* Model of the four Lambda functions of the EKS node hardening pipeline:  *)
(*   functions/node_group_info.py       Node Group Discovery               *)
(*   functions/nodegroup_updater.py     Node Group Applier                 *)
(*   functions/image_update_reminder.py Image Freshness Checker            *)
(*   functions/stepfunction_invoke.py   Notification Forwarder             *)
(* Strings that the code inspects character by character (startswith,      *)
(* substring tests) are sequences of one-character strings.  A Python       *)
(* value that may be missing is a record [has |-> BOOLEAN, val |-> ...].    *)
(* A call that may raise yields a record [err |-> <exception>, val |-> ..]  *)
(* with err = "none" when it returns.                                       *)
(***************************************************************************)
EXTENDS Integers, Sequences, FiniteSets, TLC

VARIABLES
    \* ---- the AWS account as the functions see it
    clusterInfo,      \* describe_cluster, by cluster name
    nodegroupInfo,    \* describe_nodegroup, by node group name
    stackParam,       \* stack parameter LatestEKSOptimizedAMI (may be missing)
    ltLatest,         \* EC2: LatestVersionNumber, by launch template id
    createCalls,      \* EC2: create_launch_template_version calls that took effect
    \* ---- Discovery (node_group_info.lambda_handler), one entry per invocation
    dpc,              \* position of the invocation
    devent,           \* its event
    node_groups,      \* its node_groups list
    ssm_parameter_name,
    didx,             \* index of the next node group of the loop
    processed_launch_templates,
    dresult,          \* what the invocation returned
    \* ---- Applier (nodegroup_updater.lambda_handler)
    applied,          \* invocations made: [event, call, result]
    \* ---- Freshness Checker (image_update_reminder.lambda_handler)
    fpc, fin, flatest, fparam, publishCalls, fresult,
    \* ---- Forwarder (stepfunction_invoke.lambda_handler)
    forwarded,        \* invocations made: [msg, tags, starts, outcome]
    \* ---- single applications of filter_clusters and get_node_groups
    fc, gn

worldVars == <<clusterInfo, nodegroupInfo, stackParam>>
ec2Vars   == <<ltLatest, createCalls>>
discVars  == <<dpc, devent, node_groups, ssm_parameter_name, didx, processed_launch_templates, dresult>>
freshVars == <<fpc, fin, flatest, fparam, publishCalls, fresult>>
vars == <<worldVars, ec2Vars, discVars, applied, freshVars, forwarded, fc, gn>>

\* ------------------------------------------------------------------ bounds
MaxTags == 2            \* length of the required tag list
MaxApplied == 2         \* Applier invocations in one run of the model
MaxImages == 2          \* images listed for the pipeline
MaxForwarded == 2       \* notifications forwarded in one run of the model

\* ------------------------------------------------------------------ helpers
None == [has |-> FALSE, val |-> <<>>]
Some(v) == [has |-> TRUE, val |-> v]

Range(s) == {s[i] : i \in 1..Len(s)}

\* str(n) of an integer: the number as text
str(n) == [str |-> n]

SeqsUpTo(S, n) == UNION {[1..k -> S] : k \in 0..n}

\* str.startswith
startswith(s, p) == Len(s) >= Len(p) /\ SubSeq(s, 1, Len(p)) = p

\* the Python test  p in s  on strings
contains(s, p) == \E i \in 1..(Len(s) - Len(p) + 1) : SubSeq(s, i, i + Len(p) - 1) = p

\* ------------------------------------------------- the account's clusters
ClusterNames == {"A", "B"}
TagKeys == {"env", "team"}
TagValues == {"prod", "dev"}

\* a cluster's tags: a dict, one value per key it carries
TagDicts == UNION {[K -> TagValues] : K \in SUBSET TagKeys}

\* tag lists as they arrive in the event: [{Key, Value}, ...]
TagLists == SeqsUpTo([Key : TagKeys, Value : TagValues], MaxTags)

\* serviceIpv4Cidr as text, cut at its dots and its slash
CidrTexts == { <<>>, <<"10", ".", "100", ".", "0", ".", "0", "/", "16">> }

\* what describe_cluster returns under "cluster" for the cluster named n
ClusterRecords(n) ==
    [name : {n}, tags : TagDicts,
     serviceIpv4Cidr : {None} \cup {Some(c) : c \in CidrTexts},
     certificateAuthority : {Some(<<"ca", n>>)}, endpoint : {<<"https", n>>}]

\* dict.items() as a set
items(d) == {<<k, d[k]>> : k \in DOMAIN d}

\* raw_dns.split("/")[0]
RECURSIVE BeforeSlash(_)
BeforeSlash(s) ==
    IF s = <<>> \/ Head(s) = "/" THEN <<>> ELSE <<Head(s)>> \o BeforeSlash(Tail(s))

\* ".".join(raw_dns.split("/")[0].split(".")[:-1] + ["10"]), kept as its parts
dns(raw_dns) ==
    LET parts == SelectSeq(BeforeSlash(raw_dns), LAMBDA x : x # ".")
    IN  SubSeq(parts, 1, Len(parts) - 1) \o <<"10">>

\* required_tags_set of filter_clusters: None for an empty or missing list
required_tags_set(required_tags) ==
    IF required_tags # <<>>
    THEN Some({<<required_tags[i].Key, required_tags[i].Value>> : i \in 1..Len(required_tags)})
    ELSE None

has_required_tags_any(required_tags, cluster_tags) ==
    LET rts == required_tags_set(required_tags)
    IN  IF ~rts.has \/ rts.val = {} THEN TRUE
        ELSE rts.val \cap items(cluster_tags) # {}

has_required_tags(required_tags, cluster_tags) ==
    LET rts == required_tags_set(required_tags)
    IN  IF ~rts.has \/ rts.val = {} THEN TRUE
        ELSE rts.val \subseteq items(cluster_tags)

\* .get("serviceIpv4Cidr", False), and its truth value in the if
raw_dns_truthy(cluster) ==
    cluster.serviceIpv4Cidr.has /\ cluster.serviceIpv4Cidr.val # <<>>

cluster_summary(cluster) ==
    [name |-> cluster.name,
     cluster_ca |-> cluster.certificateAuthority,
     endpoint |-> cluster.endpoint,
     dns |-> dns(cluster.serviceIpv4Cidr.val),
     cidr |-> cluster.serviceIpv4Cidr.val]

RECURSIVE filter_clusters(_, _, _)
filter_clusters(info, clusters, required_tags) ==
    IF clusters = <<>> THEN <<>>
    ELSE LET cluster == info[Head(clusters)]
             rest == filter_clusters(info, Tail(clusters), required_tags)
         IN  IF has_required_tags(required_tags, cluster.tags) /\ raw_dns_truthy(cluster)
             THEN <<cluster_summary(cluster)>> \o rest
             ELSE rest

\* ---------------------------------------------- the account's node groups
LaunchTemplateIds == {"lt-1", "lt-2"}
AMI == <<"a", "m", "i">>
ReleaseVersions == { <<"a", "m", "i", "-", "0", "a">>, <<"1", ".", "2", "9">>, <<"a", "m">> }
NodegroupStatuses == {"ACTIVE", "UPDATING"}

\* what describe_nodegroup returns under "nodegroup"; a node group that was not
\* created from a launch template has no "launchTemplate" key; the version of
\* a launch template is text
NodegroupRecords(names) ==
    [nodegroupName : names, clusterName : ClusterNames,
     launchTemplate : {None} \cup {Some([id |-> l, version |-> str(1)]) : l \in LaunchTemplateIds},
     releaseVersion : {None} \cup {Some(r) : r \in ReleaseVersions},
     status : NodegroupStatuses]

\* the paginated list_nodegroups of one cluster, in the account's listing order
list_nodegroups(ngInfo, clusterName) ==
    SelectSeq(ngInfo, LAMBDA g : g.clusterName = clusterName)

node_group(cluster, nodegroup) ==
    [launchTemplate |-> nodegroup.launchTemplate.val,
     nodegroupName |-> nodegroup.nodegroupName,
     clusterName |-> nodegroup.clusterName,
     cluster_ca |-> cluster.cluster_ca,
     endpoint |-> cluster.endpoint,
     dns |-> cluster.dns,
     cidr |-> cluster.cidr]

\* the condition of the if, evaluated left to right as Python's and does:
\* "raise" when .get("releaseVersion") is None and .startswith is called on it
nodegroup_test(nodegroup) ==
    IF ~nodegroup.launchTemplate.has THEN "skip"
    ELSE IF ~nodegroup.releaseVersion.has THEN "raise"
    ELSE IF ~startswith(nodegroup.releaseVersion.val, AMI) THEN "skip"
    ELSE IF nodegroup.status = "ACTIVE" THEN "keep" ELSE "skip"

\* the inner for loop over one cluster's node groups
RECURSIVE cluster_node_groups(_, _)
cluster_node_groups(cluster, groups) ==
    IF groups = <<>> THEN [err |-> "none", val |-> <<>>]
    ELSE LET t == nodegroup_test(Head(groups))
         IN  IF t = "raise" THEN [err |-> "AttributeError", val |-> <<>>]
             ELSE LET rest == cluster_node_groups(cluster, Tail(groups))
                  IN  IF rest.err # "none" THEN rest
                      ELSE IF t = "keep"
                      THEN [err |-> "none", val |-> <<node_group(cluster, Head(groups))>> \o rest.val]
                      ELSE rest

RECURSIVE get_node_groups(_, _)
get_node_groups(ngInfo, filtered_clusters) ==
    IF filtered_clusters = <<>> THEN [err |-> "none", val |-> <<>>]
    ELSE LET cluster == Head(filtered_clusters)
             first == cluster_node_groups(cluster, list_nodegroups(ngInfo, cluster.name))
         IN  IF first.err # "none" THEN first
             ELSE LET rest == get_node_groups(ngInfo, Tail(filtered_clusters))
                  IN  IF rest.err # "none" THEN rest
                      ELSE [err |-> "none", val |-> first.val \o rest.val]

\* ------------------------------------------------------- error handling
AwsErrors == {"ClientError", "BotoCoreError"}

Returned(v) == [err |-> "none", val |-> v]
Raised(e) == [err |-> e, val |-> <<>>]

\* the wrapper of the handle_errors decorator: what the Lambda runtime gets back
\* from a handler whose body returned or raised `out`
handle_errors(out) ==
    IF out.err = "none" THEN [raised |-> "none", value |-> out.val]
    ELSE IF out.err = "ClientError"
    THEN [raised |-> "none",
          value |-> [status |-> "error", error_code |-> "code", message |-> "ClientError"]]
    ELSE IF out.err = "BotoCoreError"
    THEN [raised |-> "none",
          value |-> [status |-> "error", message |-> "An AWS SDK error occurred."]]
    ELSE [raised |-> "none",
          value |-> [status |-> "error", message |-> <<"An unexpected error occurred: ", out.err>>]]

\* a handler without the decorator: the exception leaves the handler
undecorated(out) ==
    IF out.err = "none" THEN [raised |-> "none", value |-> out.val]
    ELSE [raised |-> out.err, value |-> <<>>]

Pending == [raised |-> "none", value |-> [status |-> "pending"]]

\* ------------------------------------------------------------- Discovery
DInvs == {1, 2}

AL2 == <<"a", "m", "a", "z", "o", "n", "-", "l", "i", "n", "u", "x", "-", "2">>
AL2023 == AL2 \o <<"0", "2", "3">>

\* values of the stack parameter LatestEKSOptimizedAMI
ParameterNames ==
    { <<"/", "e", "k", "s", "/">> \o AL2023 \o <<"/", "x", "8", "6">>,
      <<"/", "e", "k", "s", "/">> \o AL2 \o <<"/", "x", "8", "6">>,
      <<"/", "e", "k", "s", "/", "b", "o", "t", "t", "l", "e", "r", "o", "c", "k", "e", "t">> }

ImageIds == {"ami-1", "ami-2"}

\* base64.b64encode(...).decode(...): the text, marked as encoded
b64encode(text) == [b64 |-> text]

\* the same with user_data preset to empty text before the if
encoded_user_data_preset(ng, name) ==
    IF ~name.has THEN Raised("TypeError")
    ELSE IF contains(name.val, AL2023)
    THEN Returned(b64encode([kind |-> "NodeConfig", name |-> ng.clusterName,
                             apiServerEndpoint |-> ng.endpoint,
                             certificateAuthority |-> ng.cluster_ca, cidr |-> ng.cidr]))
    ELSE IF contains(name.val, AL2)
    THEN Returned(b64encode([kind |-> "bootstrap.sh", name |-> ng.clusterName,
                             b64_cluster_ca |-> ng.cluster_ca,
                             apiserver_endpoint |-> ng.endpoint,
                             dns_cluster_ip |-> ng.dns, container_runtime |-> "containerd"]))
    ELSE Returned(b64encode(<<>>))

\* the if / elif / else that builds user_data, then its encoding (lines 190-223)
encoded_user_data(ng, name) ==
    IF ~name.has THEN Raised("TypeError")
    ELSE IF contains(name.val, AL2023)
    THEN Returned(b64encode([kind |-> "NodeConfig", name |-> ng.clusterName,
                             apiServerEndpoint |-> ng.endpoint,
                             certificateAuthority |-> ng.cluster_ca, cidr |-> ng.cidr]))
    ELSE IF contains(name.val, AL2)
    THEN Returned(b64encode([kind |-> "bootstrap.sh", name |-> ng.clusterName,
                             b64_cluster_ca |-> ng.cluster_ca,
                             apiserver_endpoint |-> ng.endpoint,
                             dns_cluster_ip |-> ng.dns, container_runtime |-> "containerd"]))
    ELSE Raised("UnboundLocalError")

\* list_clusters: every cluster of the account, in the listing's order
list_clusters == <<"A", "B">>

\* lines 258-262: the read-only enumeration
DiscoveryEnumerate(i) ==
    /\ dpc[i] = "start"
    /\ \E image_id \in ImageIds, tags \in {<<>>, <<[Key |-> "env", Value |-> "prod"]>>} :
         /\ devent' = [devent EXCEPT ![i] = [image_id |-> image_id, tags |-> tags]]
         /\ \/ \E e \in AwsErrors :
                 /\ dresult' = [dresult EXCEPT ![i] = handle_errors(Raised(e))]
                 /\ dpc' = [dpc EXCEPT ![i] = "done"]
                 /\ UNCHANGED node_groups
            \/ LET filtered_clusters == filter_clusters(clusterInfo, list_clusters, tags)
                   got == get_node_groups(nodegroupInfo, filtered_clusters)
               IN  IF got.err # "none"
                   THEN /\ dresult' = [dresult EXCEPT ![i] = handle_errors(got)]
                        /\ dpc' = [dpc EXCEPT ![i] = "done"]
                        /\ UNCHANGED node_groups
                   ELSE /\ node_groups' = [node_groups EXCEPT ![i] = got.val]
                        /\ dpc' = [dpc EXCEPT ![i] = "parent"]
                        /\ UNCHANGED dresult
    /\ UNCHANGED <<worldVars, ec2Vars, ssm_parameter_name, didx, processed_launch_templates,
                   applied, freshVars, forwarded, fc, gn>>

\* lines 181-185: get_parent_image_info and the empty processed set
DiscoveryParentImage(i) ==
    /\ dpc[i] = "parent"
    /\ \/ \E e \in AwsErrors :
            /\ dresult' = [dresult EXCEPT ![i] = handle_errors(Raised(e))]
            /\ dpc' = [dpc EXCEPT ![i] = "done"]
            /\ UNCHANGED <<ssm_parameter_name, processed_launch_templates, didx>>
       \/ /\ ssm_parameter_name' = [ssm_parameter_name EXCEPT ![i] = stackParam]
          /\ processed_launch_templates' = [processed_launch_templates EXCEPT ![i] = {}]
          /\ didx' = [didx EXCEPT ![i] = 1]
          /\ dpc' = [dpc EXCEPT ![i] = "loop"]
          /\ UNCHANGED dresult
    /\ UNCHANGED <<worldVars, ec2Vars, devent, node_groups, applied, freshVars, forwarded, fc, gn>>

\* d[k] = v on a dict: the key is added when the dict lacks it
SetKey(d, k, v) == [f \in DOMAIN d \cup {k} |-> IF f = k THEN v ELSE d[f]]

\* d.get(k)
get(d, k) == IF k \in DOMAIN d THEN Some(d[k]) ELSE None

must_create_always(launch_template_id, processed) == TRUE

\* line 224: launch_template_id not in processed_launch_templates
must_create(launch_template_id, processed) == launch_template_id \notin processed

\* lines 186-245: one iteration of the for loop, up to and including its AWS call
DiscoveryIterate(i) ==
    /\ dpc[i] = "loop"
    /\ didx[i] <= Len(node_groups[i])
    /\ LET ng == node_groups[i][didx[i]]
           launch_template_id == ng.launchTemplate.id
           launch_template_version == ng.launchTemplate.version
           enc == encoded_user_data(ng, ssm_parameter_name[i])
           fails(out) ==
               /\ dresult' = [dresult EXCEPT ![i] = handle_errors(out)]
               /\ dpc' = [dpc EXCEPT ![i] = "done"]
               /\ UNCHANGED <<ec2Vars, node_groups, didx, processed_launch_templates>>
       IN  IF enc.err # "none" THEN fails(enc)
           ELSE IF must_create(launch_template_id, processed_launch_templates[i])
           THEN \/ \E e \in AwsErrors : fails(Raised(e))
                \/ LET VersionNumber == ltLatest[launch_template_id] + 1
                   IN  /\ ltLatest' = [ltLatest EXCEPT ![launch_template_id] = VersionNumber]
                       /\ createCalls' = createCalls \cup
                              {[inv |-> i, by |-> ng.nodegroupName,
                                LaunchTemplateId |-> launch_template_id,
                                SourceVersion |-> launch_template_version,   \* str() of text
                                ImageId |-> devent[i].image_id,
                                UserData |-> enc.val,
                                VersionNumber |-> VersionNumber]}
                       /\ node_groups' = [node_groups EXCEPT
                              ![i][didx[i]] = SetKey(ng, "version", str(VersionNumber))]
                       /\ processed_launch_templates' =
                              [processed_launch_templates EXCEPT ![i] = @ \cup {launch_template_id}]
                       /\ didx' = [didx EXCEPT ![i] = @ + 1]
                       /\ UNCHANGED <<dpc, dresult>>
           ELSE \/ \E e \in AwsErrors : fails(Raised(e))
                \/ /\ node_groups' = [node_groups EXCEPT
                          ![i][didx[i]] = SetKey(ng, "version", str(ltLatest[launch_template_id]))]
                   /\ didx' = [didx EXCEPT ![i] = @ + 1]
                   /\ UNCHANGED <<ec2Vars, dpc, dresult, processed_launch_templates>>
    /\ UNCHANGED <<worldVars, devent, ssm_parameter_name, applied, freshVars, forwarded, fc, gn>>

required_keys == {"launchTemplate", "clusterName", "nodegroupName", "version"}

\* lines 264-267: {key: d[key] for key in required_keys if key in d} for each d
RECURSIVE response_of(_)
response_of(updated_node_groups) ==
    IF updated_node_groups = <<>> THEN <<>>
    ELSE LET d == Head(updated_node_groups)
         IN  <<[key \in required_keys \cap DOMAIN d |-> d[key]]>>
             \o response_of(Tail(updated_node_groups))

\* lines 246 and 264-268: the loop is over, the handler returns
DiscoveryReturn(i) ==
    /\ dpc[i] = "loop"
    /\ didx[i] > Len(node_groups[i])
    /\ dresult' = [dresult EXCEPT ![i] =
           handle_errors(Returned([status |-> "complete",
                                   response |-> response_of(node_groups[i])]))]
    /\ dpc' = [dpc EXCEPT ![i] = "done"]
    /\ UNCHANGED <<worldVars, ec2Vars, devent, node_groups, ssm_parameter_name, didx,
                   processed_launch_templates, applied, freshVars, forwarded, fc, gn>>

\* --------------------------------------------------------------- Applier
\* the arguments update_nodegroup passes to update_nodegroup_version
update_nodegroup_old_version(event) ==
    LET launch_template == IF "launchTemplate" \in DOMAIN event
                           THEN event.launchTemplate ELSE <<>>
    IN  [clusterName |-> get(event, "clusterName"),
         nodegroupName |-> get(event, "nodegroupName"),
         launchTemplate |-> [version |-> get(launch_template, "version"),
                             id |-> get(launch_template, "id")]]

update_nodegroup(event) ==
    LET launch_template == IF "launchTemplate" \in DOMAIN event
                           THEN event.launchTemplate ELSE <<>>
    IN  [clusterName |-> get(event, "clusterName"),
         nodegroupName |-> get(event, "nodegroupName"),
         launchTemplate |-> [version |-> get(event, "version"),
                             id |-> get(launch_template, "id")]]

\* createdAt as the EKS client returns it, and as text
UpdateResponses == {[update |-> [id |-> "u-1", createdAt |-> [datetime |-> 7]]]}

prepare_response(response) ==
    IF "datetime" \in DOMAIN response.update.createdAt
    THEN [response EXCEPT !.update.createdAt = [isoformat |-> @.datetime]]
    ELSE response

\* the events the orchestrator hands to the Applier: the node groups of a
\* Discovery result
ApplierEvents ==
    UNION {Range(dresult[i].value.response) :
             i \in {j \in DInvs : dpc[j] = "done" /\ dresult[j].value.status = "complete"}}

\* lines 97-104, with the single call of update_nodegroup
ApplierInvoke ==
    /\ Cardinality(applied) < MaxApplied
    /\ \E event \in ApplierEvents :
         LET call == update_nodegroup(event)
         IN  \/ \E e \in AwsErrors :
                  applied' = applied \cup
                      {[event |-> event, call |-> call, effect |-> FALSE,
                        result |-> handle_errors(Raised(e))]}
             \/ \E response \in UpdateResponses :
                  applied' = applied \cup
                      {[event |-> event, call |-> call, effect |-> TRUE,
                        result |-> handle_errors(Returned(
                            [status |-> "complete",
                             response |-> prepare_response(response)]))]}
    /\ UNCHANGED <<worldVars, ec2Vars, discVars, freshVars, forwarded, fc, gn>>

\* ------------------------------------------------ initial states and specs
ValidCidr == <<"10", ".", "100", ".", "0", ".", "0", "/", "16">>
ActiveAmi == <<"a", "m", "i", "-", "0", "a">>

DefaultCluster(n) ==
    [name |-> n, tags |-> [k \in {"env"} |-> "prod"], serviceIpv4Cidr |-> Some(ValidCidr),
     certificateAuthority |-> Some(<<"ca", n>>), endpoint |-> <<"https", n>>]

DefaultNodegroup(n, c, l) ==
    [nodegroupName |-> n, clusterName |-> c,
     launchTemplate |-> Some([id |-> l, version |-> str(1)]),
     releaseVersion |-> Some(ActiveAmi), status |-> "ACTIVE"]

\* everything but the account: no invocation has started
InitIdle ==
    /\ ltLatest = [l \in LaunchTemplateIds |-> 1]
    /\ createCalls = {}
    /\ dpc = [i \in DInvs |-> "start"]
    /\ devent = [i \in DInvs |-> [image_id |-> "", tags |-> <<>>]]
    /\ node_groups = [i \in DInvs |-> <<>>]
    /\ ssm_parameter_name = [i \in DInvs |-> None]
    /\ didx = [i \in DInvs |-> 1]
    /\ processed_launch_templates = [i \in DInvs |-> {}]
    /\ dresult = [i \in DInvs |-> Pending]
    /\ applied = {}
    /\ fpc = "start"
    /\ fin = <<>>
    /\ flatest = <<>>
    /\ fparam = <<>>
    /\ publishCalls = <<>>
    /\ fresult = Pending
    /\ forwarded = <<>>
    /\ fc = [applied |-> FALSE]
    /\ gn = [applied |-> FALSE]

\* the accounts Discovery is run on: cluster A varies in its tags and its CIDR,
\* the second and third node group vary in what makes them eligible and in
\* the launch template they share with the first
DiscoveryClusters ==
    {[n \in ClusterNames |-> IF n = "A" THEN a ELSE DefaultCluster(n)] :
        a \in [name : {"A"}, tags : {[k \in {"env"} |-> "prod"], [k \in {"env"} |-> "dev"]},
               serviceIpv4Cidr : {None, Some(ValidCidr)},
               certificateAuthority : {Some(<<"ca", "A">>)}, endpoint : {<<"https", "A">>}]}

DiscoveryNodegroups ==
    {<<DefaultNodegroup("ng1", "B", "lt-1"), g2, g3>> :
        g2 \in [nodegroupName : {"ng2"}, clusterName : {"B"},
                launchTemplate : {None, Some([id |-> "lt-1", version |-> str(1)]),
                                  Some([id |-> "lt-2", version |-> str(1)])},
                releaseVersion : {Some(ActiveAmi)}, status : NodegroupStatuses],
        g3 \in [nodegroupName : {"ng3"}, clusterName : {"A"},
                launchTemplate : {Some([id |-> "lt-1", version |-> str(1)])},
                releaseVersion : {None, Some(ActiveAmi)}, status : {"ACTIVE"}]}

InitDiscovery ==
    /\ clusterInfo \in DiscoveryClusters
    /\ nodegroupInfo \in DiscoveryNodegroups
    /\ stackParam \in {None} \cup {Some(n) : n \in ParameterNames}
    /\ InitIdle

DiscoveryStep(i) ==
    \/ DiscoveryEnumerate(i)
    \/ DiscoveryParentImage(i)
    \/ DiscoveryIterate(i)
    \/ DiscoveryReturn(i)

\* Discovery invoked twice, the two invocations running concurrently
NextDiscovery == \E i \in DInvs : DiscoveryStep(i)

SpecDiscovery == InitDiscovery /\ [][NextDiscovery]_vars

\* one Discovery invocation, its result fanned out to the Applier
NextPipeline ==
    \/ DiscoveryStep(1)
    \/ ApplierInvoke

SpecPipeline == InitDiscovery /\ [][NextPipeline]_vars

\* ------------------------------------------------------ Discovery: claims
Completed(i) == dpc[i] = "done" /\ dresult[i].value.status = "complete"

\* positions in invocation i's node_groups whose launch template id is l
UsersOf(i, l) == {k \in 1..Len(node_groups[i]) : node_groups[i][k].launchTemplate.id = l}

FirstUser(i, l) == CHOOSE k \in UsersOf(i, l) : \A m \in UsersOf(i, l) : k <= m

CreatesOf(i, l) == {c \in createCalls : c.inv = i /\ c.LaunchTemplateId = l}

\* C1: an invocation of Discovery that returns "complete" has made exactly one
\* create_launch_template_version call for each launch template id among its
\* node groups, made for the first node group with that id, and none for any
\* other id; this holds for each of two concurrent invocations, so that two
\* invocations that both met the id have created two different versions of it.
C1_OneCreatePerTemplate ==
    /\ \A i \in DInvs : Completed(i) =>
         \A l \in LaunchTemplateIds :
            IF UsersOf(i, l) = {} THEN CreatesOf(i, l) = {}
            ELSE /\ Cardinality(CreatesOf(i, l)) = 1
                 /\ \A c \in CreatesOf(i, l) :
                       c.by = node_groups[i][FirstUser(i, l)].nodegroupName
    /\ \A i, j \in DInvs, l \in LaunchTemplateIds :
         (i # j /\ Completed(i) /\ Completed(j) /\ UsersOf(i, l) # {} /\ UsersOf(j, l) # {}) =>
            /\ ltLatest[l] = 3
            /\ \A c \in CreatesOf(i, l), d \in CreatesOf(j, l) : c.VersionNumber # d.VersionNumber

\* both invocations completed, each with two or more node groups on lt-1, and
\* each created its version of lt-1 while the other was inside its loop
C1_Witness ==
    /\ \A i \in DInvs : Completed(i) /\ Cardinality(UsersOf(i, "lt-1")) >= 2
    /\ Cardinality({c \in createCalls : c.LaunchTemplateId = "lt-1"}) = 2
    /\ \E k \in 1..Len(node_groups[1]) : node_groups[1][k].version = str(3)
    /\ \E k \in 1..Len(node_groups[2]) : node_groups[2][k].version = str(3)

\* C2: in a completed invocation, every node group is annotated with the
\* version number that this invocation created for its launch template id.
C2_SameVersionAsCreated ==
    \A i \in DInvs : Completed(i) =>
        \A k \in 1..Len(node_groups[i]) :
            \A c \in CreatesOf(i, node_groups[i][k].launchTemplate.id) :
                node_groups[i][k].version = str(c.VersionNumber)

\* C10: every descriptor of a "complete" Discovery result has a launch template
\* id and a version, the version being the number of a version Discovery
\* created of that template; and every Applier invocation passes the cluster,
\* node group, template id and version of its event to update_nodegroup_version.
C10_VersionResolvedByDiscovery ==
    /\ \A i \in DInvs : Completed(i) =>
         \A d \in Range(dresult[i].value.response) :
            /\ {"launchTemplate", "version"} \subseteq DOMAIN d
            /\ "id" \in DOMAIN d.launchTemplate
            /\ \E c \in createCalls :
                  /\ c.LaunchTemplateId = d.launchTemplate.id
                  /\ d.version = str(c.VersionNumber)
    /\ \A a \in applied :
         /\ a.call.launchTemplate.id = Some(a.event.launchTemplate.id)
         /\ a.call.launchTemplate.version = Some(a.event.version)
         /\ a.call.clusterName = Some(a.event.clusterName)
         /\ a.call.nodegroupName = Some(a.event.nodegroupName)

\* the Applier updated a node group to version 2 of lt-1, which Discovery created
C10_Witness ==
    \E a \in applied :
        /\ a.effect
        /\ a.event.launchTemplate.id = "lt-1"
        /\ a.event.version = str(2)
        /\ a.result.value.status = "complete"

\* ------------------------------------------- filter_clusters on its own
\* line 260: filter_clusters(eks, clusters, event.get("tags", [])) on any account
FilterApply ==
    /\ ~fc.applied
    /\ \E required_tags \in TagLists :
         fc' = [applied |-> TRUE, required_tags |-> required_tags,
                out |-> filter_clusters(clusterInfo, list_clusters, required_tags)]
    /\ UNCHANGED <<worldVars, ec2Vars, discVars, applied, freshVars, forwarded, gn>>

InitFilter ==
    /\ clusterInfo \in {f \in [ClusterNames -> UNION {ClusterRecords(n) : n \in ClusterNames}] :
                           \A n \in ClusterNames : f[n].name = n}
    /\ nodegroupInfo = <<>>
    /\ stackParam = None
    /\ InitIdle

SpecFilter == InitFilter /\ [][FilterApply]_vars

\* the (key, value) pairs of a tag list
TagPairs(tag_list) == {<<tag_list[i].Key, tag_list[i].Value>> : i \in 1..Len(tag_list)}

\* C3: filter_clusters keeps a cluster iff every (key, value) pair of the
\* required tags is among the cluster's tags (an empty list asks for nothing)
\* and the cluster has a non-empty serviceIpv4Cidr; the others are left out.
C3_FilterClusters ==
    fc.applied =>
        \A n \in Range(list_clusters) :
            (\E k \in 1..Len(fc.out) : fc.out[k].name = n)
            <=> /\ \A kv \in TagPairs(fc.required_tags) :
                      kv[1] \in DOMAIN clusterInfo[n].tags /\ clusterInfo[n].tags[kv[1]] = kv[2]
                /\ clusterInfo[n].serviceIpv4Cidr.has
                /\ clusterInfo[n].serviceIpv4Cidr.val # <<>>

\* two tags are required; A carries both and is kept, B has a CIDR and one of
\* the two tags only, and is left out
C3_Witness ==
    /\ fc.applied
    /\ Cardinality(TagPairs(fc.required_tags)) = 2
    /\ Len(fc.out) = 1 /\ fc.out[1].name = "A"
    /\ raw_dns_truthy(clusterInfo["B"])
    /\ TagPairs(fc.required_tags) \cap items(clusterInfo["B"].tags) # {}

\* ------------------------------------------- get_node_groups on its own
\* line 261: get_node_groups(eks, filtered_clusters)
GetNodeGroupsApply ==
    /\ ~gn.applied
    /\ \E required_tags \in {<<>>, <<[Key |-> "env", Value |-> "prod"]>>} :
         LET filtered_clusters == filter_clusters(clusterInfo, list_clusters, required_tags)
         IN  gn' = [applied |-> TRUE, filtered_clusters |-> filtered_clusters,
                    out |-> get_node_groups(nodegroupInfo, filtered_clusters)]
    /\ UNCHANGED <<worldVars, ec2Vars, discVars, applied, freshVars, forwarded, fc>>

InitNodeGroups ==
    /\ clusterInfo = [n \in ClusterNames |->
                        IF n = "A" THEN DefaultCluster(n)
                        ELSE [DefaultCluster(n) EXCEPT !.tags = [k \in {"env"} |-> "dev"]]]
    /\ nodegroupInfo \in {<<g1, g2>> : g1 \in NodegroupRecords({"ng1"}),
                                      g2 \in NodegroupRecords({"ng2"})}
    /\ stackParam = None
    /\ InitIdle

SpecNodeGroups == InitNodeGroups /\ [][GetNodeGroupsApply]_vars

NodegroupEligible(g) ==
    /\ g.launchTemplate.has
    /\ g.releaseVersion.has /\ startswith(g.releaseVersion.val, AMI)
    /\ g.status = "ACTIVE"

InFiltered(g) == \E k \in 1..Len(gn.filtered_clusters) : gn.filtered_clusters[k].name = g.clusterName

\* C4: get_node_groups returns, and returns a node group of an eligible
\* cluster iff the node group has a launch template, a release version that
\* starts with "ami" and the status "ACTIVE".
C4_NodeGroupsFiltered ==
    gn.applied =>
        /\ gn.out.err = "none"
        /\ \A g \in Range(nodegroupInfo) :
              InFiltered(g) =>
                 ((\E k \in 1..Len(gn.out.val) : gn.out.val[k].nodegroupName = g.nodegroupName)
                  <=> NodegroupEligible(g))

\* C4, for the accounts in which every node group of an eligible cluster that
\* has a launch template also has a release version
C4_WhenReleaseVersionPresent ==
    (gn.applied /\ \A g \in Range(nodegroupInfo) :
                      (InFiltered(g) /\ g.launchTemplate.has) => g.releaseVersion.has)
    => C4_NodeGroupsFiltered

\* ------------------------------------------------------ Freshness Checker
\* a timezone-aware instant: wall-clock time and UTC offset, in hours
DateTimes == [local : {1, 2}, off : {0, 1}]

\* the text "%Y-%m-%dT%H:%M:%S.%f%z" of an instant, and its parse
strftime(t) == [text |-> <<t.local, t.off>>]
strptime(d) == [local |-> d.text[1], off |-> d.text[2]]

\* aware datetimes compare by the instant they denote
Instant(t) == t.local - t.off

later_or_equal(a, b) == Instant(a) >= Instant(b)

\* line 152: ssm_last_modified_date > image_creation_date
later(a, b) == Instant(a) > Instant(b)

\* image versions are text; Python compares text character by character
ImageVersions == {<<9>>, <<1, 0>>}

RECURSIVE str_gt(_, _)
str_gt(a, b) ==
    IF a = <<>> THEN FALSE
    ELSE IF b = <<>> THEN TRUE
    ELSE IF Head(a) # Head(b) THEN Head(a) > Head(b)
    ELSE str_gt(Tail(a), Tail(b))

ImageSummaries ==
    [state : [status : {"AVAILABLE", "FAILED"}], version : ImageVersions,
     dateCreated : {strftime(t) : t \in DateTimes}]

\* max(images, key=version): the first of the greatest
RECURSIVE max_by_version(_)
max_by_version(images) ==
    IF Len(images) = 1 THEN images[1]
    ELSE LET best == max_by_version(SubSeq(images, 1, Len(images) - 1))
             last == images[Len(images)]
         IN  IF str_gt(last.version, best.version) THEN last ELSE best

\* lines 73-81 of get_latest_image and the unpacking of line 143
get_latest_image(image_summary_list) ==
    IF image_summary_list = <<>>
    THEN Raised("ValueError: too many values to unpack (expected 2)")
    ELSE LET available_images ==
                 SelectSeq(image_summary_list, LAMBDA image : image.state.status = "AVAILABLE")
         IN  IF available_images = <<>>
             THEN Raised("ValueError: max() arg is an empty sequence")
             ELSE Returned([latest_image |-> max_by_version(available_images),
                            parent_image_id |-> "ami-parent"])

FreshnessFails(out) ==
    /\ fresult' = handle_errors(out)
    /\ fpc' = "done"

\* lines 138-146: the three Image Builder calls, the selection, the date's parse
FreshnessGetLatestImage ==
    /\ fpc = "start"
    /\ \/ /\ \E e \in AwsErrors : FreshnessFails(Raised(e))
          /\ UNCHANGED <<fin, flatest>>
       \/ \E image_summary_list \in SeqsUpTo(ImageSummaries, MaxImages) :
            LET got == get_latest_image(image_summary_list)
            IN  /\ fin' = [listed |-> image_summary_list]
                /\ IF got.err # "none"
                   THEN FreshnessFails(got) /\ UNCHANGED flatest
                   ELSE /\ flatest' = [latest_image |-> got.val.latest_image,
                                       parent_image_id |-> got.val.parent_image_id,
                                       image_creation_date |->
                                           strptime(got.val.latest_image.dateCreated)]
                        /\ fpc' = "param"
                        /\ UNCHANGED fresult
    /\ UNCHANGED <<worldVars, ec2Vars, discVars, applied, fparam, publishCalls,
                   forwarded, fc, gn>>

\* lines 148-150: the stack parameter, then the SSM parameter it names
FreshnessGetParameter ==
    /\ fpc = "param"
    /\ \/ /\ \E e \in AwsErrors : FreshnessFails(Raised(e))
          /\ UNCHANGED fparam
       \/ /\ ~stackParam.has        \* get_parameters(Names=[None]) is refused by the SDK
          /\ FreshnessFails(Raised("BotoCoreError"))
          /\ UNCHANGED fparam
       \/ /\ stackParam.has         \* response["Parameters"] is empty
          /\ FreshnessFails(Raised("Exception: SSM parameter not found"))
          /\ UNCHANGED fparam
       \/ /\ stackParam.has
          /\ \E t \in DateTimes :
               fparam' = [Name |-> stackParam.val, Value |-> "ami-upstream",
                          LastModifiedDate |-> t]
          /\ fpc' = "publish"
          /\ UNCHANGED fresult
    /\ UNCHANGED <<worldVars, ec2Vars, discVars, applied, fin, flatest, publishCalls,
                   forwarded, fc, gn>>

UpdateAvailable == "A new version of the parent image for your piprline is available"
UpToDate == "Parent image is up to date"

message_of(text) ==
    [Message |-> text,
     Parent_image_SSM_Parameter_path |-> fparam.Name,
     New_parent_image_AMI_ID |-> fparam.Value,
     Parent_image_last_modified_date |-> strftime(fparam.LastModifiedDate),
     Current_parent_image_AMI_ID |-> flatest.parent_image_id,
     Image_Pipeline_last_image_build_date |-> strftime(flatest.image_creation_date)]

published_if_newer_only(newer) ==
    IF newer THEN <<message_of(UpdateAvailable)>> ELSE <<>>

\* lines 152-182: the messages the if / else hands to publish_sns_message
published(newer) ==
    IF newer THEN <<message_of(UpdateAvailable)>> ELSE <<message_of(UpToDate)>>

\* lines 152-183: the comparison, the publish of its branch, the return
FreshnessPublish ==
    /\ fpc = "publish"
    /\ LET messages == published(later(fparam.LastModifiedDate, flatest.image_creation_date))
       IN  \/ /\ publishCalls' = publishCalls \o messages
              /\ fresult' = handle_errors(Returned([MessageId |-> "m-1"]))
              /\ fpc' = "done"
           \/ /\ messages # <<>>
              /\ publishCalls' = publishCalls \o messages
              /\ \E e \in AwsErrors : FreshnessFails(Raised(e))
    /\ UNCHANGED <<worldVars, ec2Vars, discVars, applied, fin, flatest, fparam,
                   forwarded, fc, gn>>

InitFreshness ==
    /\ clusterInfo = [n \in ClusterNames |-> DefaultCluster(n)]
    /\ nodegroupInfo = <<>>
    /\ stackParam \in {None} \cup {Some(n) : n \in ParameterNames}
    /\ InitIdle

NextFreshness ==
    \/ FreshnessGetLatestImage
    \/ FreshnessGetParameter
    \/ FreshnessPublish

SpecFreshness == InitFreshness /\ [][NextFreshness]_vars

\* ------------------------------------------------ Freshness Checker: claims
FreshnessError == "status" \in DOMAIN fresult.value /\ fresult.value.status = "error"

\* C5: the message handed to publish is the "update available" one iff the
\* parameter's LastModifiedDate is an instant strictly after the creation date
\* of the selected image, and the "up to date" one otherwise.
C5_UpdateIffStrictlyLater ==
    \A k \in 1..Len(publishCalls) :
        LET created == strptime(flatest.latest_image.dateCreated)
            newer == fparam.LastModifiedDate.local - fparam.LastModifiedDate.off
                        > created.local - created.off
        IN  /\ publishCalls[k].Message = (IF newer THEN UpdateAvailable ELSE UpToDate)
            /\ publishCalls[k].Parent_image_last_modified_date.text
                  = <<fparam.LastModifiedDate.local, fparam.LastModifiedDate.off>>

\* the two dates are the same instant written with different offsets, and the
\* "up to date" message was published
C5_Witness ==
    /\ fpc = "done"
    /\ Len(publishCalls) = 1
    /\ publishCalls[1].Message = UpToDate
    /\ Instant(fparam.LastModifiedDate) = Instant(flatest.image_creation_date)
    /\ fparam.LastModifiedDate.off # flatest.image_creation_date.off

NoneAvailable ==
    /\ fin # <<>>
    /\ \A k \in 1..Len(fin.listed) : fin.listed[k].state.status # "AVAILABLE"

\* C7: when none of the listed images is AVAILABLE, no image is selected and
\* the invocation ends with an error result that reports a NotFoundError.
C7_NotFoundError ==
    (fpc = "done" /\ NoneAvailable) =>
        /\ flatest = <<>>
        /\ FreshnessError
        /\ fresult.value.message = <<"An unexpected error occurred: ", "NotFoundError">>

\* what the code does in that case: an error result all the same
C7_ErrorResult ==
    (fpc = "done" /\ NoneAvailable) => (flatest = <<>> /\ FreshnessError)

\* ---------------------------------------------------------------- Forwarder
ImageStatuses == {"AVAILABLE", "FAILED", "available"}
Reasons == {None, Some(""), Some("disk full")}

\* the Image Builder message inside the SNS record, as json.loads returns it
Notifications ==
    [state : [status : ImageStatuses, reason : Reasons],
     outputResources : [amis : {<<[image |-> "ami-1"]>>,
                                <<[image |-> "ami-2"], [image |-> "ami-1"]>>}]]

\* json.dumps of a value, and json.loads of that text
json_dumps(v) == [json |-> v]
json_loads(t) == t.json

\* os.environ["TAGS"]
TAGS == json_dumps(<<[Key |-> "env", Value |-> "prod"]>>)

is_available_any_case(image_status) == image_status \in {"AVAILABLE", "available"}

\* line 18: image_status == "AVAILABLE"
is_available(image_status) == image_status = "AVAILABLE"

\* lines 6-28; the handler has no decorator, so what start_execution raises
\* leaves the handler
ForwarderInvoke ==
    /\ Len(forwarded) < MaxForwarded
    /\ \E sns_message \in Notifications :
         LET image_id == sns_message.outputResources.amis[1].image
             image_status == sns_message.state.status
             image_status_reason == sns_message.state.reason
             tags == json_loads(TAGS)
             start == [stateMachineArn |-> "SFARN",
                       input |-> json_dumps([image_id |-> image_id, tags |-> tags])]
             executionArn == <<"execution", Len(forwarded) + 1>>
         IN  IF is_available(image_status)
             THEN \/ forwarded' = Append(forwarded,
                        [event |-> sns_message, starts |-> <<start>>, started |-> <<executionArn>>,
                         outcome |-> undecorated(Returned(Some(executionArn)))])
                  \/ \E e \in AwsErrors :
                        forwarded' = Append(forwarded,
                            [event |-> sns_message, starts |-> <<start>>, started |-> <<>>,
                             outcome |-> undecorated(Raised(e))])
             ELSE forwarded' = Append(forwarded,
                      [event |-> sns_message, starts |-> <<>>, started |-> <<>>,
                       outcome |-> undecorated(Returned(image_status_reason))])
    /\ UNCHANGED <<worldVars, ec2Vars, discVars, applied, freshVars, fc, gn>>

InitForwarder ==
    /\ clusterInfo = [n \in ClusterNames |-> DefaultCluster(n)]
    /\ nodegroupInfo = <<>>
    /\ stackParam = None
    /\ InitIdle

SpecForwarder == InitForwarder /\ [][ForwarderInvoke]_vars

C9_AllErrorsCaught ==
    /\ \A i \in DInvs : dresult[i].raised = "none"
    /\ \A a \in applied : a.result.raised = "none"
    /\ fresult.raised = "none"
    /\ \A k \in 1..Len(forwarded) : forwarded[k].outcome.raised = "none"

\* ------------------------------------------- Discovery: unsupported image
\* the stack parameter names an image family that is neither AL2023 nor AL2
Unsupported(name) == name.has /\ ~contains(name.val, AL2023) /\ ~contains(name.val, AL2)

HasVersion(i) == \E k \in 1..Len(node_groups[i]) : "version" \in DOMAIN node_groups[i][k]

\* C11: when the parameter name contains neither "amazon-linux-2023" nor
\* "amazon-linux-2", no invocation of Discovery makes a
\* create_launch_template_version call or annotates a node group, and an
\* invocation that found an eligible node group ends with an error result,
\* never with "complete".
C11_UnsupportedFamilyFails ==
    Unsupported(stackParam) =>
        \A i \in DInvs :
            /\ \A c \in createCalls : c.inv # i
            /\ ~HasVersion(i)
            /\ (dpc[i] = "done" /\ node_groups[i] # <<>>) =>
                  dresult[i].value.status = "error"

\* an invocation with eligible node groups read the unsupported name, entered
\* its loop and ended with the error of the unassigned user_data
C11_Witness ==
    /\ Unsupported(stackParam)
    /\ \E i \in DInvs :
          /\ dpc[i] = "done"
          /\ Len(node_groups[i]) >= 2
          /\ ssm_parameter_name[i] = stackParam
          /\ dresult[i].value.status = "error"
          /\ dresult[i].value.message = <<"An unexpected error occurred: ", "UnboundLocalError">>

\* ------------------------------------------ mutating calls and the result
\* no invocation returns "complete" although a mutating call of it failed:
\* a complete Discovery result has a created version for every template id of
\* its node groups, a complete Applier result an update that took effect
NoCompleteAfterFailedCall ==
    /\ \A i \in DInvs : Completed(i) =>
          \A l \in LaunchTemplateIds : UsersOf(i, l) # {} => CreatesOf(i, l) # {}
    /\ \A a \in applied : a.result.value.status = "complete" => a.effect

\* an Applier invocation that returns an error has updated nothing
NoApplierErrorAfterEffect ==
    \A a \in applied : a.result.value.status = "error" => ~a.effect

\* a Discovery invocation that returns an error has created no version
NoDiscoveryErrorAfterEffect ==
    \A i \in DInvs :
        (dpc[i] = "done" /\ dresult[i].value.status = "error") =>
            \A c \in createCalls : c.inv # i

\* C12: in Discovery and in the Applier no invocation returns "complete" when
\* one of its mutating calls failed, and none returns an error result after
\* one of its mutating calls (create_launch_template_version,
\* update_nodegroup_version) has taken effect.
C12_MutationIsLastFailingStep ==
    /\ NoCompleteAfterFailedCall
    /\ NoApplierErrorAfterEffect
    /\ NoDiscoveryErrorAfterEffect

\* what holds of the code: the claim without its Discovery error half
C12_WithoutDiscoveryErrorHalf == NoCompleteAfterFailedCall /\ NoApplierErrorAfterEffect

====
